---------------------------- MODULE Spec2Model ----------------------------
(***************************************************************************)
(* Model of httptrace/server.go: the tracing Middleware, the               *)
(* responseInfoRecorder it wraps the http.ResponseWriter in, and the       *)
(* ServerEvent it hands to the collector.                                  *)
(*                                                                         *)
(* Every request r has its own copy of the locals of the closure returned  *)
(* by Middleware (spanID, setSpanIDFromClient, e, rr) and its own          *)
(* underlying ResponseWriter rw; the configuration, the clock, the process *)
(* log and the collector are shared.  pc[r] is the position of request r   *)
(* in the closure; while pc[r] = "next" the downstream handler runs and    *)
(* calls the wrapper.                                                      *)
(***************************************************************************)
EXTENDS Integers, Sequences, FiniteSets, TLC

\* ------------------------------------------------------------- bounds

\* Number of request slots of the server.
NumReq == 2
\* Calls the downstream handler makes before it returns.
MaxOps == 2
\* Largest identifier component of a span (trace, span, parent).
MaxID == 2
\* Largest reading of the clock.
MaxTime == 2
\* Longest body chunk passed to one Write.
MaxChunk == 2
\* Calls each handler makes when the requests are served concurrently.
MaxOpsConc == 1

\* ---------------------------------------------------------- constants

\* http.StatusOK
StatusOK == 200

Reqs == 1..NumReq
IDs == 1..MaxID

\* The designated span header and one ordinary response header.
SpanHeader == "Span-ID"
HeaderNames == {SpanHeader, "Content-Type"}
\* Headers whose values are never captured.
Sensitive == {"Authorization", "Cookie"}

\* A header value is the sequence of its "/"-separated components; the
\* empty sequence is the value Header.Get gives for a header that is absent.
NoValue == << >>
NoHeaders == [h \in HeaderNames |-> NoValue]

\* apptrace.SpanID
SpanIDs == [Trace : IDs, Span : IDs, Parent : 0..MaxID]

\* Inbound values of the span header: absent, malformed, a child span, and
\* a root span written with an explicit zero parent.
InHeaders == {NoValue, <<1>>, <<2, 1, 1>>, <<1, 2, 0>>}
\* The headers a handler sets on the response, as <<name, value>>.
HandlerHeaders == {<<SpanHeader, <<2, 2>>>>, <<"Content-Type", <<1>>>>}
\* The URI the request arrives with, and the one a handler rewrites it to.
InitialURI == "/widgets/7"
RewrittenURI == "/7"
\* What the configured resolvers return.
Routes == {"", "GetWidget"}
Users == {"alice"}
\* The status codes a handler passes to WriteHeader.
StatusCodes == {404, 500}
WriteLens == 0..MaxChunk
NoError == "nil"

\* ------------------------------------------------------- SpanID codec

\* SpanID.String: "trace/span" for a root span, "trace/span/parent" otherwise.
SpanIDString(s) ==
    IF s.Parent = 0 THEN <<s.Trace, s.Span>> ELSE <<s.Trace, s.Span, s.Parent>>

\* ParseSpanID: two or three components, else ErrBadSpanID.
ParseOK(v) == Len(v) \in {2, 3}
ParseSpanID(v) ==
    [Trace |-> v[1], Span |-> v[2], Parent |-> IF Len(v) = 3 THEN v[3] ELSE 0]

\* GetSpanIDHeader(h): (nil, nil) when the header is absent, (nil, err) when
\* it is malformed, (&span, nil) otherwise.  A *SpanID is a sequence of
\* length at most one.
GetSpanIDHeader(h) ==
    LET v == h[SpanHeader] IN
    IF v = NoValue THEN [spanID |-> << >>, err |-> FALSE]
    ELSE IF ParseOK(v) THEN [spanID |-> <<ParseSpanID(v)>>, err |-> FALSE]
    ELSE [spanID |-> << >>, err |-> TRUE]

\* SetSpanIDHeader(h, s): h.Set(HeaderSpanID, s.String()).
SetSpanIDHeader(h, s) == [h EXCEPT ![SpanHeader] = SpanIDString(s)]

\* The values NewRootSpanID can return: random trace and span, no parent.
RootSpanIDs == {s \in SpanIDs : s.Parent = 0}

\* -------------------------------------------------------- event model

\* redactHeaders: the mapping without the values of sensitive headers.
redactHeaders(h) ==
    [k \in DOMAIN h |-> IF k \in Sensitive THEN <<0>> ELSE h[k]]

ZeroRequestInfo == [URI |-> ""]
ZeroResponseInfo == [Headers |-> NoHeaders, ContentLength |-> 0, StatusCode |-> 0]
ZeroEvent ==
    [Request |-> ZeroRequestInfo, Response |-> ZeroResponseInfo,
     Route |-> "", User |-> "", ServerRecv |-> 0, ServerSend |-> 0]

\* requestInfo(r): what is captured of the request as it is now.
requestInfo(u) == [URI |-> u]

\* responseInfo(r *http.Response)
responseInfo(resp) ==
    [Headers |-> redactHeaders(resp.Header),
     ContentLength |-> resp.ContentLength,
     StatusCode |-> resp.StatusCode]

\* NewServerEvent(r)
NewServerEvent(u) == [ZeroEvent EXCEPT !.Request = requestInfo(u)]


\* ------------------------------------------- underlying ResponseWriter

\* The http.ResponseWriter the server passes in: status is the status line
\* committed to the client (0 while nothing is committed), sent the headers
\* committed with it, header the map Header() returns, bytes the body bytes
\* the connection accepted.
NewSink == [status |-> 0, sent |-> NoHeaders, header |-> NoHeaders, bytes |-> 0]

\* ResponseWriter.WriteHeader(code): the first call commits the status and
\* the headers as they are; a later call is ignored.
SinkWriteHeader(w, code) ==
    IF w.status # 0 THEN w
    ELSE [w EXCEPT !.status = code, !.sent = w.header]

\* ResponseWriter.Write(b), of which the connection accepts res.n bytes: an
\* implicit WriteHeader(200) when nothing is committed yet.
SinkWrite(w, res) ==
    [SinkWriteHeader(w, StatusOK) EXCEPT !.bytes = @ + res.n]

\* What ResponseWriter.Write can return for a chunk of n bytes: all of it, or
\* one byte less with an error.
SinkWriteResults(n) ==
    {[n |-> n, err |-> NoError]}
        \cup (IF n > 0 THEN {[n |-> n - 1, err |-> "short write"]} ELSE {})

\* ------------------------------------------------ responseInfoRecorder

\* &responseInfoRecorder{ResponseWriter: rw}
NewRecorder == [statusCode |-> 0, ContentLength |-> 0]

\* Faulty Write: the byte count is assigned, not accumulated.
RecorderWrite_Assign(rec, n) ==
    [statusCode |-> IF rec.statusCode = 0 THEN StatusOK ELSE rec.statusCode,
     ContentLength |-> n]

\* Faulty Write: the status is set to 200 without looking at it first.
RecorderWrite_ForceOK(rec, n) ==
    [statusCode |-> StatusOK, ContentLength |-> rec.ContentLength + n]

\* Write: the recorder's fields after Write(b), len(b) = n.
RecorderWrite(rec, n) ==
    [statusCode |-> IF rec.statusCode = 0 THEN StatusOK ELSE rec.statusCode,
     ContentLength |-> rec.ContentLength + n]

\* Faulty Write: "always succeeds", whatever the underlying Write returned.
RecorderWriteReturn_AlwaysSucceeds(n, res) == [n |-> n, err |-> NoError]

\* Write: its return value, given what the underlying Write returned.
RecorderWriteReturn(n, res) == res

\* Faulty Write: an empty chunk is not passed on.
ForwardWrite_SkipsEmpty(n) ==
    IF n = 0 THEN << >> ELSE <<[op |-> "Write", arg |-> n]>>

\* Write: the calls it makes on the underlying ResponseWriter.
ForwardWrite(n) == <<[op |-> "Write", arg |-> n]>>

\* WriteHeader: the calls it makes on the underlying ResponseWriter.
ForwardWriteHeader(code) == <<[op |-> "WriteHeader", arg |-> code]>>

\* StatusCode()
StatusCode(rec) == IF rec.statusCode = 0 THEN StatusOK ELSE rec.statusCode

\* WriteHeader: the recorder's fields after WriteHeader(code).
RecorderWriteHeader(rec, code) == [rec EXCEPT !.statusCode = code]

\* Faulty partialResponse: the statusCode field as it is, 0 when never set.
partialResponse_RawStatus(rec, w) ==
    [StatusCode |-> rec.statusCode,
     ContentLength |-> rec.ContentLength,
     Header |-> w.header]

\* partialResponse(): status, byte count and the sink's header map as it is.
partialResponse(rec, w) ==
    [StatusCode |-> StatusCode(rec),
     ContentLength |-> rec.ContentLength,
     Header |-> w.header]

\* ---------------------------------------------------------------- state

VARIABLES
    conf,       \* *MiddlewareConfig: which callbacks are non-nil
    now,        \* the last reading of the clock
    log,        \* lines printed with log.Printf, in order
    collected,  \* what the recorders handed to the collector c, in order
    pc,         \* position of each request
    inHeader,   \* r.Header: the inbound header map
    uri,        \* the request's URI as it is now
    spanID,     \* spanID (*apptrace.SpanID): << >> is nil
    fromClient, \* setSpanIDFromClient
    minted,     \* the spans NewRootSpanID returned for this request
    ctx,        \* the spans SetContextSpan was called with
    e,          \* *ServerEvent
    rr,         \* *responseInfoRecorder
    rw,         \* the underlying http.ResponseWriter
    calls,      \* the handler's calls of rr.Write and rr.WriteHeader
    ret,        \* the last return of rr.Write and of the underlying Write
    ops,        \* calls the handler may still make
    invoked,    \* the sinks next was called with ("rr": the wrapper)
    sinkCalls,  \* the calls the underlying ResponseWriter received
    snaps,      \* the values partialResponse() returned
    lookups,    \* the calls of RouteName and CurrentUser, with their results
    stamps      \* the readings of time.Now() taken for this request

shared == <<conf, now, log, collected>>
request == <<inHeader, uri>>
span == <<spanID, fromClient, minted, ctx>>
response == <<rr, rw, calls, ret, ops>>
trace == <<invoked, sinkCalls, snaps, lookups, stamps>>
vars == <<shared, pc, request, span, e, response, trace>>

NoReturn == [n |-> 0, err |-> NoError]

Configs == [RouteName : BOOLEAN, CurrentUser : BOOLEAN, SetContextSpan : BOOLEAN]

\* The state every request slot starts in; those in S hold a request that
\* has reached the middleware, the others none.  budget is the number of
\* calls a handler makes.
InitFor(S, budget) ==
    /\ conf \in Configs
    /\ now = 1
    /\ log = << >>
    /\ collected = << >>
    /\ pc = [r \in Reqs |-> IF r \in S THEN "resolve" ELSE "idle"]
    /\ inHeader \in [Reqs -> [HeaderNames -> InHeaders]]
    /\ \A r \in Reqs : /\ inHeader[r]["Content-Type"] = NoValue
                       /\ r \notin S => inHeader[r] = NoHeaders
    /\ uri = [r \in Reqs |-> InitialURI]
    /\ spanID = [r \in Reqs |-> << >>]
    /\ fromClient = [r \in Reqs |-> FALSE]
    /\ minted = [r \in Reqs |-> << >>]
    /\ ctx = [r \in Reqs |-> << >>]
    /\ e = [r \in Reqs |-> ZeroEvent]
    /\ rr = [r \in Reqs |-> NewRecorder]
    /\ rw = [r \in Reqs |-> NewSink]
    /\ calls = [r \in Reqs |-> << >>]
    /\ ret = [r \in Reqs |-> [rr |-> NoReturn, rw |-> NoReturn]]
    /\ ops = [r \in Reqs |-> budget]
    /\ invoked = [r \in Reqs |-> << >>]
    /\ sinkCalls = [r \in Reqs |-> << >>]
    /\ snaps = [r \in Reqs |-> << >>]
    /\ lookups = [r \in Reqs |-> << >>]
    /\ stamps = [r \in Reqs |-> << >>]

InitWith(S) == InitFor(S, MaxOps)

\* One request goes through the middleware.
Init == InitWith({1})

\* All requests are in the middleware at once, each on its own goroutine,
\* under a configuration with every callback set: the odd ones carry no
\* span header, the even ones the span "2/1/1".
InitConc ==
    /\ InitFor(Reqs, MaxOpsConc)
    /\ conf = [RouteName |-> TRUE, CurrentUser |-> TRUE, SetContextSpan |-> TRUE]
    /\ \A r \in Reqs :
           inHeader[r][SpanHeader] = IF r % 2 = 1 THEN NoValue ELSE <<2, 1, 1>>


\* time.Now(): the clock never runs backwards.
Readings == now..MaxTime

\* ----------------------------------------------------------- Middleware

\* Faulty ResolveSpan: a malformed header ends the handling of the request.
ResolveSpan_AbortOnError(r) ==
    LET got == GetSpanIDHeader(inHeader[r]) IN
    /\ pc[r] = "resolve"
    /\ log' = IF got.err THEN Append(log, [req |-> r, kind |-> "warning"]) ELSE log
    /\ fromClient' = [fromClient EXCEPT ![r] = (got.spanID # << >>)]
    /\ IF got.err
       THEN UNCHANGED <<spanID, minted>>
       ELSE IF got.spanID = << >>
       THEN \E s \in RootSpanIDs :
                /\ spanID' = [spanID EXCEPT ![r] = <<s>>]
                /\ minted' = [minted EXCEPT ![r] = Append(@, s)]
       ELSE /\ spanID' = [spanID EXCEPT ![r] = got.spanID]
            /\ UNCHANGED minted
    /\ pc' = [pc EXCEPT ![r] = IF got.err THEN "aborted" ELSE "publish"]
    /\ UNCHANGED <<conf, now, collected, request, ctx, e, response>>
    /\ UNCHANGED trace

\* Faulty ResolveSpan: the warning is logged whenever no span was decoded,
\* also when the header is merely absent.
ResolveSpan_WarnOnNil(r) ==
    LET got == GetSpanIDHeader(inHeader[r]) IN
    /\ pc[r] = "resolve"
    /\ log' = IF got.spanID = << >>
              THEN Append(log, [req |-> r, kind |-> "warning"]) ELSE log
    /\ fromClient' = [fromClient EXCEPT ![r] = (got.spanID # << >>)]
    /\ IF got.spanID = << >>
       THEN \E s \in RootSpanIDs :
                /\ spanID' = [spanID EXCEPT ![r] = <<s>>]
                /\ minted' = [minted EXCEPT ![r] = Append(@, s)]
       ELSE /\ spanID' = [spanID EXCEPT ![r] = got.spanID]
            /\ UNCHANGED minted
    /\ pc' = [pc EXCEPT ![r] = "publish"]
    /\ UNCHANGED <<conf, now, collected, request, ctx, e, response>>
    /\ UNCHANGED trace

\* spanID, err := GetSpanIDHeader(r.Header); the warning; the fresh root span.
ResolveSpan(r) ==
    LET got == GetSpanIDHeader(inHeader[r]) IN
    /\ pc[r] = "resolve"
    /\ log' = IF got.err THEN Append(log, [req |-> r, kind |-> "warning"]) ELSE log
    /\ fromClient' = [fromClient EXCEPT ![r] = (got.spanID # << >>)]
    /\ IF got.spanID = << >>
       THEN \E s \in RootSpanIDs :
                /\ spanID' = [spanID EXCEPT ![r] = <<s>>]
                /\ minted' = [minted EXCEPT ![r] = Append(@, s)]
       ELSE /\ spanID' = [spanID EXCEPT ![r] = got.spanID]
            /\ UNCHANGED minted
    /\ pc' = [pc EXCEPT ![r] = "publish"]
    /\ UNCHANGED <<conf, now, collected, request, ctx, e, response>>
    /\ UNCHANGED trace

\* Faulty PublishSpan: the setter is called only for a client's span.
PublishSpan_OnlyFromClient(r) ==
    /\ pc[r] = "publish"
    /\ ctx' = IF conf.SetContextSpan /\ fromClient[r]
              THEN [ctx EXCEPT ![r] = Append(@, spanID[r][1])]
              ELSE ctx
    /\ pc' = [pc EXCEPT ![r] = "build"]
    /\ UNCHANGED <<shared, request, spanID, fromClient, minted, e, response>>
    /\ UNCHANGED trace

\* conf.SetContextSpan(r, *spanID), if configured.
PublishSpan(r) ==
    /\ pc[r] = "publish"
    /\ ctx' = IF conf.SetContextSpan
              THEN [ctx EXCEPT ![r] = Append(@, spanID[r][1])]
              ELSE ctx
    /\ pc' = [pc EXCEPT ![r] = "build"]
    /\ UNCHANGED <<shared, request, spanID, fromClient, minted, e, response>>
    /\ UNCHANGED trace

\* Faulty BuildEvent: the route is taken without looking at conf.RouteName.
BuildEvent_AlwaysResolves(r) ==
    /\ pc[r] = "build"
    /\ \E t \in Readings, route \in Routes, user \in Users :
           /\ now' = t
           /\ e' = [e EXCEPT ![r] =
                      [NewServerEvent(uri[r]) EXCEPT
                          !.ServerRecv = t,
                          !.Route = route,
                          !.User = IF conf.CurrentUser THEN user ELSE ""]]
           /\ lookups' = [lookups EXCEPT ![r] =
                  @ \o <<[fn |-> "RouteName", result |-> route]>>
                    \o (IF conf.CurrentUser
                        THEN <<[fn |-> "CurrentUser", result |-> user]>> ELSE << >>)]
           /\ stamps' = [stamps EXCEPT ![r] = Append(@, t)]
    /\ pc' = [pc EXCEPT ![r] = "wrap"]
    /\ UNCHANGED <<conf, log, collected, request, span, response>>
    /\ UNCHANGED <<invoked, sinkCalls, snaps>>

\* e := NewServerEvent(r); ServerRecv, Route and User.
BuildEvent(r) ==
    /\ pc[r] = "build"
    /\ \E t \in Readings, route \in Routes, user \in Users :
           /\ now' = t
           /\ e' = [e EXCEPT ![r] =
                      [NewServerEvent(uri[r]) EXCEPT
                          !.ServerRecv = t,
                          !.Route = IF conf.RouteName THEN route ELSE "",
                          !.User = IF conf.CurrentUser THEN user ELSE ""]]
           /\ lookups' = [lookups EXCEPT ![r] =
                  @ \o (IF conf.RouteName
                        THEN <<[fn |-> "RouteName", result |-> route]>> ELSE << >>)
                    \o (IF conf.CurrentUser
                        THEN <<[fn |-> "CurrentUser", result |-> user]>> ELSE << >>)]
           /\ stamps' = [stamps EXCEPT ![r] = Append(@, t)]
    /\ pc' = [pc EXCEPT ![r] = "wrap"]
    /\ UNCHANGED <<conf, log, collected, request, span, response>>
    /\ UNCHANGED <<invoked, sinkCalls, snaps>>

\* rr := &responseInfoRecorder{ResponseWriter: rw}; next(rr, r) begins.
CallNext(r) ==
    /\ pc[r] = "wrap"
    /\ rr' = [rr EXCEPT ![r] = NewRecorder]
    /\ pc' = [pc EXCEPT ![r] = "next"]
    /\ UNCHANGED <<shared, request, span, e, rw, calls, ret, ops>>
    /\ invoked' = [invoked EXCEPT ![r] = Append(@, "rr")]
    /\ UNCHANGED <<sinkCalls, snaps, lookups, stamps>>

\* Faulty HandlerWrite: one recorder is shared by all requests.
HandlerWrite_SharedRecorder(r) ==
    /\ pc[r] = "next"
    /\ ops[r] > 0
    /\ \E n \in WriteLens : \E res \in SinkWriteResults(n) :
           /\ rr' = [q \in Reqs |-> RecorderWrite(rr[q], n)]
           /\ rw' = [rw EXCEPT ![r] = SinkWrite(@, res)]
           /\ ret' = [ret EXCEPT ![r] = [rr |-> RecorderWriteReturn(n, res), rw |-> res]]
           /\ calls' = [calls EXCEPT ![r] = Append(@, [op |-> "Write", arg |-> n])]
           /\ sinkCalls' = [sinkCalls EXCEPT ![r] = @ \o ForwardWrite(n)]
    /\ ops' = [ops EXCEPT ![r] = @ - 1]
    /\ UNCHANGED <<shared, pc, request, span, e>>
    /\ UNCHANGED <<invoked, snaps, lookups, stamps>>

\* The handler calls rr.Write(b).
HandlerWrite(r) ==
    /\ pc[r] = "next"
    /\ ops[r] > 0
    /\ \E n \in WriteLens : \E res \in SinkWriteResults(n) :
           /\ rr' = [rr EXCEPT ![r] = RecorderWrite(@, n)]
           /\ rw' = [rw EXCEPT ![r] = SinkWrite(@, res)]
           /\ ret' = [ret EXCEPT ![r] = [rr |-> RecorderWriteReturn(n, res), rw |-> res]]
           /\ calls' = [calls EXCEPT ![r] = Append(@, [op |-> "Write", arg |-> n])]
           /\ sinkCalls' = [sinkCalls EXCEPT ![r] = @ \o ForwardWrite(n)]
    /\ ops' = [ops EXCEPT ![r] = @ - 1]
    /\ UNCHANGED <<shared, pc, request, span, e>>
    /\ UNCHANGED <<invoked, snaps, lookups, stamps>>

\* The handler calls rr.WriteHeader(code).
HandlerWriteHeader(r) ==
    /\ pc[r] = "next"
    /\ ops[r] > 0
    /\ \E code \in StatusCodes :
           /\ rr' = [rr EXCEPT ![r] = RecorderWriteHeader(@, code)]
           /\ rw' = [rw EXCEPT ![r] = SinkWriteHeader(@, code)]
           /\ calls' = [calls EXCEPT ![r] = Append(@, [op |-> "WriteHeader", arg |-> code])]
           /\ sinkCalls' = [sinkCalls EXCEPT ![r] = @ \o ForwardWriteHeader(code)]
    /\ ops' = [ops EXCEPT ![r] = @ - 1]
    /\ UNCHANGED <<shared, pc, request, span, e, ret>>
    /\ UNCHANGED <<invoked, snaps, lookups, stamps>>

\* The handler calls rr.Header().Set(name, value): Header is the embedded
\* ResponseWriter's, so the map is the sink's own.
HandlerSetHeader(r) ==
    /\ pc[r] = "next"
    /\ ops[r] > 0
    /\ \E hv \in HandlerHeaders :
           rw' = [rw EXCEPT ![r].header[hv[1]] = hv[2]]
    /\ ops' = [ops EXCEPT ![r] = @ - 1]
    /\ UNCHANGED <<shared, pc, request, span, e, rr, calls, ret>>
    /\ UNCHANGED trace

\* The handler rewrites the request (as http.StripPrefix does).
HandlerMutateRequest(r) ==
    /\ pc[r] = "next"
    /\ ops[r] > 0
    /\ uri[r] # RewrittenURI
    /\ uri' = [uri EXCEPT ![r] = RewrittenURI]
    /\ ops' = [ops EXCEPT ![r] = @ - 1]
    /\ UNCHANGED <<shared, pc, inHeader, span, e, rr, rw, calls, ret>>
    /\ UNCHANGED trace

\* next(rr, r) returns.
HandlerReturn(r) ==
    /\ pc[r] = "next"
    /\ pc' = [pc EXCEPT ![r] = "echo"]
    /\ UNCHANGED <<shared, request, span, e, response>>
    /\ UNCHANGED trace

\* Faulty HandlerPanic: the span is echoed on the way out (a deferred echo).
HandlerPanic_EchoesSpan(r) ==
    /\ pc[r] = "next"
    /\ rw' = [rw EXCEPT ![r].header = SetSpanIDHeader(@, spanID[r][1])]
    /\ pc' = [pc EXCEPT ![r] = "panicked"]
    /\ UNCHANGED <<shared, request, span, e, rr, calls, ret, ops>>
    /\ UNCHANGED trace

\* next(rr, r) panics: the closure is unwound, nothing after line 81 runs.
HandlerPanic(r) ==
    /\ pc[r] = "next"
    /\ pc' = [pc EXCEPT ![r] = "panicked"]
    /\ UNCHANGED <<shared, request, span, e, response>>
    /\ UNCHANGED trace

\* Faulty EchoSpan: only a span generated here is echoed.
EchoSpan_OnlyMinted(r) ==
    /\ pc[r] = "echo"
    /\ rw' = IF fromClient[r] THEN rw
             ELSE [rw EXCEPT ![r].header = SetSpanIDHeader(@, spanID[r][1])]
    /\ pc' = [pc EXCEPT ![r] = "recapture"]
    /\ UNCHANGED <<shared, request, span, e, rr, calls, ret, ops>>
    /\ UNCHANGED trace

\* SetSpanIDHeader(rr.Header(), *spanID)
EchoSpan(r) ==
    /\ pc[r] = "echo"
    /\ rw' = [rw EXCEPT ![r].header = SetSpanIDHeader(@, spanID[r][1])]
    /\ pc' = [pc EXCEPT ![r] = "recapture"]
    /\ UNCHANGED <<shared, request, span, e, rr, calls, ret, ops>>
    /\ UNCHANGED trace

\* Faulty Recapture: a header is added to the response after the snapshot
\* that is logged.
Recapture_TagsResponse(r) ==
    /\ pc[r] = "recapture"
    /\ IF ~fromClient[r]
       THEN /\ e' = [e EXCEPT ![r].Request = requestInfo(uri[r])]
            /\ log' = log \o <<[req |-> r, kind |-> "e.Request"],
                               [req |-> r, kind |-> "e.Response"]>>
            /\ snaps' = [snaps EXCEPT ![r] = Append(@, partialResponse(rr[r], rw[r]))]
            /\ rw' = [rw EXCEPT ![r].header["Content-Type"] = <<2>>]
       ELSE UNCHANGED <<e, log, snaps, rw>>
    /\ pc' = [pc EXCEPT ![r] = "finalize"]
    /\ UNCHANGED <<conf, now, collected, request, span, rr, calls, ret, ops>>
    /\ UNCHANGED <<invoked, sinkCalls, lookups, stamps>>

\* Faulty Recapture: the request info is recomputed for every request.
Recapture_Always(r) ==
    /\ pc[r] = "recapture"
    /\ e' = [e EXCEPT ![r].Request = requestInfo(uri[r])]
    /\ IF ~fromClient[r]
       THEN /\ log' = log \o <<[req |-> r, kind |-> "e.Request"],
                               [req |-> r, kind |-> "e.Response"]>>
            /\ snaps' = [snaps EXCEPT ![r] = Append(@, partialResponse(rr[r], rw[r]))]
       ELSE UNCHANGED <<log, snaps>>
    /\ pc' = [pc EXCEPT ![r] = "finalize"]
    /\ UNCHANGED <<conf, now, collected, request, span, response>>
    /\ UNCHANGED <<invoked, sinkCalls, lookups, stamps>>

\* if !setSpanIDFromClient { e.Request = requestInfo(r); two log lines }
Recapture(r) ==
    /\ pc[r] = "recapture"
    /\ IF ~fromClient[r]
       THEN /\ e' = [e EXCEPT ![r].Request = requestInfo(uri[r])]
            /\ log' = log \o <<[req |-> r, kind |-> "e.Request"],
                               [req |-> r, kind |-> "e.Response"]>>
            /\ snaps' = [snaps EXCEPT ![r] = Append(@, partialResponse(rr[r], rw[r]))]
       ELSE UNCHANGED <<e, log, snaps>>
    /\ pc' = [pc EXCEPT ![r] = "finalize"]
    /\ UNCHANGED <<conf, now, collected, request, span, response>>
    /\ UNCHANGED <<invoked, sinkCalls, lookups, stamps>>

\* Faulty Finalize: the event is handed to the collector before Response
\* and ServerSend are set.
Finalize_HandsOver(r) ==
    /\ pc[r] = "finalize"
    /\ collected' = Append(collected,
           [req |-> r, span |-> spanID[r][1], kind |-> "event",
            name |-> "", event |-> e[r]])
    /\ snaps' = [snaps EXCEPT ![r] = Append(@, partialResponse(rr[r], rw[r]))]
    /\ \E t \in Readings :
           /\ now' = t
           /\ stamps' = [stamps EXCEPT ![r] = Append(@, t)]
           /\ e' = [e EXCEPT ![r].Response = responseInfo(partialResponse(rr[r], rw[r])),
                             ![r].ServerSend = t]
    /\ pc' = [pc EXCEPT ![r] = "name"]
    /\ UNCHANGED <<conf, log, request, span, response>>
    /\ UNCHANGED <<invoked, sinkCalls, lookups>>

\* Faulty Finalize: the second reading of the clock is stored in ServerRecv.
Finalize_StampsRecv(r) ==
    /\ pc[r] = "finalize"
    /\ snaps' = [snaps EXCEPT ![r] = Append(@, partialResponse(rr[r], rw[r]))]
    /\ \E t \in Readings :
           /\ now' = t
           /\ stamps' = [stamps EXCEPT ![r] = Append(@, t)]
           /\ e' = [e EXCEPT ![r].Response = responseInfo(partialResponse(rr[r], rw[r])),
                             ![r].ServerRecv = t]
    /\ pc' = [pc EXCEPT ![r] = "name"]
    /\ UNCHANGED <<conf, log, collected, request, span, response>>
    /\ UNCHANGED <<invoked, sinkCalls, lookups>>

\* e.Response = responseInfo(rr.partialResponse()); e.ServerSend = time.Now()
Finalize(r) ==
    /\ pc[r] = "finalize"
    /\ snaps' = [snaps EXCEPT ![r] = Append(@, partialResponse(rr[r], rw[r]))]
    /\ \E t \in Readings :
           /\ now' = t
           /\ stamps' = [stamps EXCEPT ![r] = Append(@, t)]
           /\ e' = [e EXCEPT ![r].Response = responseInfo(partialResponse(rr[r], rw[r])),
                             ![r].ServerSend = t]
    /\ pc' = [pc EXCEPT ![r] = "name"]
    /\ UNCHANGED <<conf, log, collected, request, span, response>>
    /\ UNCHANGED <<invoked, sinkCalls, lookups>>

\* Faulty SpanName: the route, also when it is empty.
SpanName_RouteOnly(ev) == ev.Route

\* The name the recorder is given: the route, else the request's URI.
SpanName(ev) == IF ev.Route # "" THEN ev.Route ELSE ev.Request.URI

\* Faulty NameSpan: the recorder is created with a new root span.
NameSpan_FreshSpan(r) ==
    /\ pc[r] = "name"
    /\ \E s \in RootSpanIDs :
           /\ minted' = [minted EXCEPT ![r] = Append(@, s)]
           /\ collected' = Append(collected,
                  [req |-> r, span |-> s, kind |-> "name",
                   name |-> SpanName(e[r]), event |-> ZeroEvent])
    /\ pc' = [pc EXCEPT ![r] = "event"]
    /\ UNCHANGED <<conf, now, log, request, spanID, fromClient, ctx, e, response>>
    /\ UNCHANGED trace

\* rec := apptrace.NewRecorder(*spanID, c); rec.Name(...)
NameSpan(r) ==
    /\ pc[r] = "name"
    /\ collected' = Append(collected,
           [req |-> r, span |-> spanID[r][1], kind |-> "name",
            name |-> SpanName(e[r]), event |-> ZeroEvent])
    /\ pc' = [pc EXCEPT ![r] = "event"]
    /\ UNCHANGED <<conf, now, log, request, span, e, response>>
    /\ UNCHANGED trace

\* rec.Event(e)
RecordEvent(r) ==
    /\ pc[r] = "event"
    /\ collected' = Append(collected,
           [req |-> r, span |-> spanID[r][1], kind |-> "event",
            name |-> "", event |-> e[r]])
    /\ pc' = [pc EXCEPT ![r] = "done"]
    /\ UNCHANGED <<conf, now, log, request, span, e, response>>
    /\ UNCHANGED trace

Next ==
    \E r \in Reqs :
        \/ ResolveSpan(r)
        \/ PublishSpan(r)
        \/ BuildEvent(r)
        \/ CallNext(r)
        \/ HandlerWrite(r)
        \/ HandlerWriteHeader(r)
        \/ HandlerSetHeader(r)
        \/ HandlerMutateRequest(r)
        \/ HandlerReturn(r)
        \/ HandlerPanic(r)
        \/ EchoSpan(r)
        \/ Recapture(r)
        \/ Finalize(r)
        \/ NameSpan(r)
        \/ RecordEvent(r)

Spec == Init /\ [][Next]_vars

\* The steps of the requests interleave in any order.
SpecConc == InitConc /\ [][Next]_vars


\* ------------------------------------------------------------ properties

\* Positions at which next(rr, r) has been called, and has returned.
Called == {"next", "echo", "recapture", "finalize", "name", "event", "done", "panicked"}
Returned == {"echo", "recapture", "finalize", "name", "event", "done"}
\* Positions at which SetSpanIDHeader has run.
Echoed == {"recapture", "finalize", "name", "event", "done"}

\* What the recorder of request r handed to the collector, by kind.
Handed(r, kind) == SelectSeq(collected, LAMBDA c : c.req = r /\ c.kind = kind)

\* The warnings logged for request r.
Warnings(r) == {i \in DOMAIN log : log[i].req = r /\ log[i].kind = "warning"}

\* Whether the inbound span header of request r is present and well-formed.
InboundValid(r) == Len(inHeader[r][SpanHeader]) \in {2, 3}
InboundMalformed(r) == ~InboundValid(r) /\ inHeader[r][SpanHeader] # NoValue

\* The total length of the chunks in a sequence of calls.
RECURSIVE WrittenBytes(_)
WrittenBytes(cs) ==
    IF cs = << >> THEN 0
    ELSE (IF Head(cs).op = "Write" THEN Head(cs).arg ELSE 0) + WrittenBytes(Tail(cs))

NoWriteHeader(cs) == \A i \in DOMAIN cs : cs[i].op = "Write"

\* C1: when the inbound span header decodes to a span S, the span header on
\* the response headers after Middleware has finished decodes to S, whatever
\* the handler wrote or set.
C1_EchoesClientSpan ==
    \A r \in Reqs :
        (pc[r] = "done" /\ InboundValid(r)) =>
            /\ ~GetSpanIDHeader(rw[r].header).err
            /\ GetSpanIDHeader(rw[r].header).spanID = <<ParseSpanID(inHeader[r][SpanHeader])>>

\* C1 witness: a finished request with the inbound header "1/2/0", whose
\* handler set the span header to something else and committed it.
C1_Witness ==
    \E r \in Reqs :
        /\ pc[r] = "done"
        /\ inHeader[r][SpanHeader] = <<1, 2, 0>>
        /\ rw[r].sent[SpanHeader] = <<2, 2>>
        /\ rw[r].header[SpanHeader] # inHeader[r][SpanHeader]

\* C2: with the inbound span header absent or malformed, exactly one root
\* span is generated, it is the resolved span, the response header carries
\* it (a non-empty value), and a warning is logged once when the header was
\* malformed and never when it was absent.
C2_FreshRootSpan ==
    \A r \in Reqs :
        (pc[r] \notin {"idle", "resolve"} /\ ~InboundValid(r)) =>
            /\ Len(minted[r]) = 1
            /\ minted[r][1].Parent = 0
            /\ minted[r][1].Trace # 0 /\ minted[r][1].Span # 0
            /\ spanID[r] = minted[r]
            /\ Cardinality(Warnings(r)) = IF InboundMalformed(r) THEN 1 ELSE 0
            /\ pc[r] = "done" =>
                   /\ rw[r].header[SpanHeader] # NoValue
                   /\ GetSpanIDHeader(rw[r].header).spanID = minted[r]

\* C2 witness: a finished request whose inbound header was malformed.
C2_Witness ==
    \E r \in Reqs :
        /\ pc[r] = "done"
        /\ InboundMalformed(r)
        /\ Cardinality(Warnings(r)) = 1
        /\ Len(calls[r]) > 0

\* C3: the underlying sink never commits the status line and headers before
\* SetSpanIDHeader has put the resolved span on the response headers.
C3_EchoBeforeCommit ==
    \A r \in Reqs : rw[r].status # 0 => pc[r] \in Echoed

\* C4: the event of a request whose handler returned is handed to the
\* collector exactly once, after the handler returned and with Response and
\* ServerSend set, and is the event as it is from then on.
C4_EventHandedOnce ==
    \A r \in Reqs :
        LET evs == Handed(r, "event") IN
        /\ Len(evs) <= 1
        /\ pc[r] = "done" => Len(evs) = 1
        /\ Len(evs) = 1 =>
               /\ pc[r] = "done"
               /\ evs[1].event.Response.StatusCode # 0
               /\ evs[1].event.Response = responseInfo(partialResponse(rr[r], rw[r]))
               /\ evs[1].event.ServerSend # 0
               /\ evs[1].event = e[r]

\* C4 witness: a finished request whose handler called the wrapper.
C4_Witness ==
    \E r \in Reqs :
        /\ pc[r] = "done"
        /\ Len(Handed(r, "event")) = 1
        /\ Len(calls[r]) = MaxOps

\* C5: after any sequence of Write calls totaling N bytes and no WriteHeader
\* call, StatusCode() is 200 and ContentLength is N (0 with no call at all).
C5_WritesOnly ==
    \A r \in Reqs :
        NoWriteHeader(calls[r]) =>
            /\ StatusCode(rr[r]) = 200
            /\ rr[r].ContentLength = WrittenBytes(calls[r])

\* C5 witness: two Write calls of different lengths, three bytes in all.
C5_Witness ==
    \E r \in Reqs :
        /\ Len(calls[r]) = 2
        /\ NoWriteHeader(calls[r])
        /\ calls[r][1].arg # calls[r][2].arg
        /\ WrittenBytes(calls[r]) = 3

\* C6: when the first call is WriteHeader(c) and only Write calls follow,
\* StatusCode() is c after that call and after each of the Write calls.
C6_ExplicitStatusKept ==
    \A r \in Reqs :
        (/\ calls[r] # << >>
         /\ Head(calls[r]).op = "WriteHeader"
         /\ NoWriteHeader(Tail(calls[r]))) =>
            StatusCode(rr[r]) = Head(calls[r]).arg

\* C6 witness: WriteHeader(404) followed by a Write.
C6_Witness ==
    \E r \in Reqs :
        /\ Len(calls[r]) = 2
        /\ calls[r][1] = [op |-> "WriteHeader", arg |-> 404]
        /\ calls[r][2].op = "Write" /\ calls[r][2].arg > 0

C8_SendAfterRecv ==
    \A r \in Reqs :
        /\ pc[r] \in Called => e[r].ServerRecv # 0
        /\ pc[r] \notin Returned => e[r].ServerSend = 0
        /\ \A i \in DOMAIN collected :
               collected[i].kind = "event" =>
                   collected[i].event.ServerSend >= collected[i].event.ServerRecv

\* C8 witness: an emitted event during whose handling the clock advanced.
C8_Witness ==
    \E i \in DOMAIN collected :
        /\ collected[i].kind = "event"
        /\ collected[i].event.ServerSend > collected[i].event.ServerRecv

\* C9: the recorder is named once, before the event is recorded, by the
\* event's Route when that is non-empty and by its Request URI otherwise.
C9_NamedByRouteOrURI ==
    \A r \in Reqs :
        LET names == Handed(r, "name") IN
        /\ Len(names) <= 1
        /\ \A j \in DOMAIN collected :
               (collected[j].req = r /\ collected[j].kind = "event") =>
                   \E i \in 1..(j - 1) :
                       collected[i].req = r /\ collected[i].kind = "name"
        /\ Len(names) = 1 =>
               names[1].name = IF e[r].Route # "" THEN e[r].Route
                                                  ELSE e[r].Request.URI

\* C9 witness: a recorded event whose route resolver returned the empty
\* string, named by the URI.
C9_Witness ==
    \E r \in Reqs :
        /\ pc[r] = "done"
        /\ conf.RouteName
        /\ e[r].Route = ""
        /\ Handed(r, "name")[1].name = e[r].Request.URI

\* The span request r resolves to: the client's, else the generated one.
Resolved(r) ==
    IF InboundValid(r) THEN ParseSpanID(inHeader[r][SpanHeader]) ELSE minted[r][1]

\* C10: a configured span-context setter is called once per request, with
\* the resolved span, before the handler is called.
C10_ContextSetOnce ==
    \A r \in Reqs :
        /\ Len(ctx[r]) <= 1
        /\ (conf.SetContextSpan /\ pc[r] \in Called) => ctx[r] = <<Resolved(r)>>

\* C10 witness: the handler runs with a generated span in the context.
C10_Witness ==
    \E r \in Reqs :
        /\ conf.SetContextSpan
        /\ pc[r] = "next"
        /\ ~InboundValid(r)
        /\ ctx[r] = minted[r]
        /\ Len(ctx[r]) = 1


\* Positions before next(rr, r) is called.
PreHandler == {"resolve", "publish", "build", "wrap"}

\* A step of the closure itself for request r (not one of the handler's).
MiddlewareStep(r) ==
    \/ ResolveSpan(r) \/ PublishSpan(r) \/ BuildEvent(r) \/ CallNext(r)
    \/ EchoSpan(r) \/ Recapture(r) \/ Finalize(r) \/ NameSpan(r) \/ RecordEvent(r)

\* C11: whatever the inbound span header and the configuration, no step
\* before the handler ends the handling: the next step can always be taken,
\* and the handler is called exactly once, with the wrapper.
C11_HandlerInvokedOnce ==
    \A r \in Reqs :
        /\ Len(invoked[r]) <= 1
        /\ pc[r] \in PreHandler =>
               /\ invoked[r] = << >>
               /\ ENABLED MiddlewareStep(r)
        /\ pc[r] \notin (PreHandler \cup {"idle"}) => invoked[r] = <<"rr">>

\* C11 witness: the handler runs for a request with a malformed span
\* header under a configuration without callbacks.
C11_Witness ==
    \E r \in Reqs :
        /\ pc[r] = "next"
        /\ InboundMalformed(r)
        /\ conf = [RouteName |-> FALSE, CurrentUser |-> FALSE, SetContextSpan |-> FALSE]
        /\ invoked[r] = <<"rr">>

\* The calls of callback fn made for request r.
Lookups(r, fn) == SelectSeq(lookups[r], LAMBDA l : l.fn = fn)

\* C12: an absent callback is not called and leaves its field empty (Route,
\* User, the context), the closure can always take its next step, and the
\* event is emitted with those fields empty.
C12_AbsentCallbacks ==
    \A r \in Reqs :
        /\ ~conf.RouteName => (e[r].Route = "" /\ Lookups(r, "RouteName") = << >>)
        /\ ~conf.CurrentUser => (e[r].User = "" /\ Lookups(r, "CurrentUser") = << >>)
        /\ ~conf.SetContextSpan => ctx[r] = << >>
        /\ pc[r] \in (PreHandler \cup Returned) \ {"done"} => ENABLED MiddlewareStep(r)
        /\ pc[r] = "done" =>
               /\ Len(Handed(r, "event")) = 1
               /\ ~conf.RouteName => Handed(r, "event")[1].event.Route = ""
               /\ ~conf.CurrentUser => Handed(r, "event")[1].event.User = ""

\* C12 witness: an event emitted under a configuration without callbacks.
C12_Witness ==
    \E r \in Reqs :
        /\ conf = [RouteName |-> FALSE, CurrentUser |-> FALSE, SetContextSpan |-> FALSE]
        /\ pc[r] = "done"
        /\ Len(Handed(r, "event")) = 1
        /\ Handed(r, "name")[1].name = RewrittenURI

\* C13: every value partialResponse() has returned is the value it would
\* return now: the snapshots taken agree with each other and with any later
\* one, in status code, content length and headers.
C13_SnapshotsAgree ==
    \A r \in Reqs :
        \A i \in DOMAIN snaps[r] :
            /\ snaps[r][i].StatusCode = StatusCode(rr[r])
            /\ snaps[r][i].ContentLength = rr[r].ContentLength
            /\ snaps[r][i].Header = rw[r].header
            /\ snaps[r][i] = snaps[r][1]

\* C13 witness: two snapshots taken of a response the handler wrote and set
\* a header on.
C13_Witness ==
    \E r \in Reqs :
        /\ pc[r] = "done"
        /\ Len(snaps[r]) = 2
        /\ snaps[r][1].ContentLength > 0
        /\ snaps[r][2].Header["Content-Type"] # NoValue

\* The code of the last WriteHeader call in a sequence of calls, 200 when
\* there is none.
LastStatus(cs) ==
    LET explicit == {i \in DOMAIN cs : cs[i].op = "WriteHeader"} IN
    IF explicit = {} THEN 200
    ELSE cs[CHOOSE i \in explicit : \A j \in explicit : j <= i].arg

\* C14: the Response of the emitted event has the status the handler set
\* (200 when it set none) and the total length of its body writes.
C14_ResponseReflectsHandler ==
    \A r \in Reqs :
        \A i \in DOMAIN collected :
            (collected[i].req = r /\ collected[i].kind = "event") =>
                /\ collected[i].event.Response.StatusCode = LastStatus(calls[r])
                /\ collected[i].event.Response.ContentLength = WrittenBytes(calls[r])

\* C14 witness: status 500 and no body for a request with a valid inbound
\* span: the event has 500/0 and the response header encodes that span.
C14_Witness ==
    \E r \in Reqs :
        /\ pc[r] = "done"
        /\ calls[r] = <<[op |-> "WriteHeader", arg |-> 500]>>
        /\ InboundValid(r)
        /\ Handed(r, "event")[1].event.Response.StatusCode = 500
        /\ Handed(r, "event")[1].event.Response.ContentLength = 0
        /\ ParseSpanID(rw[r].header[SpanHeader]) = ParseSpanID(inHeader[r][SpanHeader])

\* C15: in every state the underlying sink has received exactly the calls
\* the handler made on the wrapper, with the same arguments, in the same
\* order: each is passed on within the wrapper's call.
C15_ObserveAndForward ==
    \A r \in Reqs : sinkCalls[r] = calls[r]

\* C15 witness: an empty Write followed by a WriteHeader, both passed on.
C15_Witness ==
    \E r \in Reqs :
        /\ calls[r] = <<[op |-> "Write", arg |-> 0], [op |-> "WriteHeader", arg |-> 404]>>
        /\ Len(sinkCalls[r]) = 2

\* C16: once line 84 is passed, the event's Request is the request as the
\* handler left it when the span was created here, and the request as it
\* was before the handler ran when the span came from the client.
C16_RecaptureIffMinted ==
    \A r \in Reqs :
        pc[r] \in {"finalize", "name", "event", "done"} =>
            e[r].Request.URI = IF InboundValid(r) THEN InitialURI ELSE uri[r]

\* C16 witness: a client's span and a handler that rewrote the request.
C16_Witness ==
    \E r \in Reqs :
        /\ pc[r] = "done"
        /\ InboundValid(r)
        /\ uri[r] = RewrittenURI
        /\ Handed(r, "event")[1].event.Request.URI = InitialURI

\* C18: the status StatusCode() reports is the status the underlying sink
\* committed to the client.
C18_StatusMatchesSink ==
    \A r \in Reqs : rw[r].status # 0 => StatusCode(rr[r]) = rw[r].status

\* C19: one span is resolved per request and used everywhere: the context
\* setter, the response header and the recorder get the same span, and
\* NewRootSpanID is called at most once, never for a decoded inbound header.
C19_OneSpanEverywhere ==
    \A r \in Reqs :
        /\ Len(minted[r]) <= 1
        /\ InboundValid(r) => minted[r] = << >>
        /\ pc[r] \notin {"idle", "resolve"} => spanID[r] = <<Resolved(r)>>
        /\ \A i \in DOMAIN ctx[r] : ctx[r][i] = Resolved(r)
        /\ pc[r] \in Echoed => rw[r].header[SpanHeader] = SpanIDString(Resolved(r))
        /\ \A i \in DOMAIN collected :
               collected[i].req = r => collected[i].span = Resolved(r)

\* C19 witness: a finished request with a generated span, given to the
\* setter, the header and the recorder.
C19_Witness ==
    \E r \in Reqs :
        /\ pc[r] = "done"
        /\ Len(minted[r]) = 1
        /\ ctx[r] = minted[r]
        /\ Len(Handed(r, "event")) = 1

\* The values of the span header a handler leaves on the response.
HandlerSpanValues == {NoValue} \cup {hv[2] : hv \in {x \in HandlerHeaders : x[1] = SpanHeader}}

\* C20: after a panic of the handler nothing of lines 82-98 happens: the
\* span header is as the handler left it, ServerSend and Response are not
\* set, nothing is handed to the collector, and the closure takes no step.
C20_PanicNotCaught ==
    \A r \in Reqs :
        pc[r] = "panicked" =>
            /\ rw[r].header[SpanHeader] \in HandlerSpanValues
            /\ e[r].ServerSend = 0
            /\ e[r].Response = ZeroResponseInfo
            /\ Handed(r, "event") = << >>
            /\ Handed(r, "name") = << >>
            /\ snaps[r] = << >>
            /\ ~ENABLED MiddlewareStep(r)

\* C20 witness: a handler that wrote a body and then panicked.
C20_Witness ==
    \E r \in Reqs :
        /\ pc[r] = "panicked"
        /\ rw[r].status # 0
        /\ rw[r].header[SpanHeader] = NoValue
        /\ rr[r].ContentLength > 0


\* What a callback returned for request r, "" when it was not called.
Looked(r, fn) ==
    IF Lookups(r, fn) = << >> THEN "" ELSE Lookups(r, fn)[1].result

\* C17: with the requests' steps interleaved in any order, the recorder of a
\* request counts its own handler's writes only, each request emits at most
\* one event (exactly one once it is done), and the span, status code, byte
\* count, route, user, request URI and timestamps of that event are those
\* of its own request.
C17_RequestsIndependent ==
    \A r \in Reqs :
        /\ rr[r].ContentLength = WrittenBytes(calls[r])
        /\ Len(Handed(r, "event")) <= 1
        /\ pc[r] = "done" => Len(Handed(r, "event")) = 1
        /\ \A i \in DOMAIN collected :
               (collected[i].req = r /\ collected[i].kind = "event") =>
                   LET ev == collected[i].event IN
                   /\ collected[i].span = Resolved(r)
                   /\ ev.Response.StatusCode = LastStatus(calls[r])
                   /\ ev.Response.ContentLength = WrittenBytes(calls[r])
                   /\ ev.Response.Headers = rw[r].header
                   /\ ev.Route = Looked(r, "RouteName")
                   /\ ev.User = Looked(r, "CurrentUser")
                   /\ ev.Request.URI = IF InboundValid(r) THEN InitialURI ELSE uri[r]
                   /\ stamps[r] = <<ev.ServerRecv, ev.ServerSend>>

\* C17 witness: two requests whose emissions interleave at the collector,
\* with different spans, status codes, byte counts and routes.
C17_Witness ==
    \E r, q \in Reqs :
        /\ r # q
        /\ pc[r] = "done" /\ pc[q] = "done"
        /\ Len(collected) = 4
        /\ collected[1].req = r /\ collected[2].req = q
        /\ collected[3].req = r /\ collected[4].req = q
        /\ collected[3].span # collected[4].span
        /\ collected[3].event.Response.StatusCode = 404
        /\ collected[4].event.Response.StatusCode = 200
        /\ collected[3].event.Response.ContentLength = 0
        /\ collected[4].event.Response.ContentLength = 2
        /\ collected[3].event.Route # collected[4].event.Route

=============================================================================
